---- MODULE Spec2Model ----
(***************************************************************************)
(* SimpleSearchEngine (src/search_engine.py): an in-memory inverted index. *)
(* A text is a sequence of one-character strings; a token is such a        *)
(* sequence too.  The engine's state is the three fields set by __init__.   *)
(* The caller makes one call at a time: pc is "returned" between a call's   *)
(* return and the caller's taking of the result, where op is the call (for  *)
(* a search, with the terms and the operator word its query was written     *)
(* from), before the engine's fields when it was made, ret the value        *)
(* returned and out the lines printed; otherwise pc is "ready".             *)
(* Spec is the engine under its three operations; SpecTok is _tokenize      *)
(* applied to one text.                                                     *)
(***************************************************************************)
EXTENDS Integers, Sequences, FiniteSets, TLC

VARIABLES documents, inverted_index, next_doc_id, pc, op, before, ret, out

vars == <<documents, inverted_index, next_doc_id, pc, op, before, ret, out>>

\* ------------------------------------------------------------- bounds
\* Document IDs are drawn from 0..MaxDocId: the explicit ones, and the
\* automatic ones too (add_document without doc_id is called while
\* next_doc_id <= MaxDocId).
MaxDocId == 1
\* The texts added are the first NumTexts texts of Corpus.
NumTexts == 3
\* A query has at most MaxTerms terms.
MaxTerms == 3
\* A text given to _tokenize alone has at most MaxLen characters.
MaxLen == 4

\* ------------------------------------------------------------- characters
LowerLetters ==
    <<"a","b","c","d","e","f","g","h","i","j","k","l","m",
      "n","o","p","q","r","s","t","u","v","w","x","y","z">>

UpperLetters ==
    <<"A","B","C","D","E","F","G","H","I","J","K","L","M",
      "N","O","P","Q","R","S","T","U","V","W","X","Y","Z">>

\* The class [a-z] of the regular expression in _tokenize.
LowerSet == {LowerLetters[i] : i \in 1..26}

UpperSet == {UpperLetters[i] : i \in 1..26}

\* The class \s, which is also what str.split() and str.strip() cut on.
Whitespace == {" ", "\t", "\n", "\r"}

LowerMap == [c \in UpperSet |-> LowerLetters[CHOOSE i \in 1..26 : UpperLetters[i] = c]]

UpperMap == [c \in LowerSet |-> UpperLetters[CHOOSE i \in 1..26 : LowerLetters[i] = c]]

\* str.lower() and str.upper(), character by character.
lower(s) == [i \in 1..Len(s) |-> IF s[i] \in UpperSet THEN LowerMap[s[i]] ELSE s[i]]

upper(s) == [i \in 1..Len(s) |-> IF s[i] \in LowerSet THEN UpperMap[s[i]] ELSE s[i]]

\* ------------------------------------------------------------- strings
IsWhite(c) == c \in Whitespace

\* str.split(): the maximal runs of non-whitespace characters, in order.
\* cur is the run being read, acc the runs already closed.
RECURSIVE SplitRuns(_, _, _, _)
SplitRuns(s, i, cur, acc) ==
    IF i > Len(s)
    THEN IF cur = <<>> THEN acc ELSE Append(acc, cur)
    ELSE IF IsWhite(s[i])
         THEN SplitRuns(s, i + 1, <<>>, IF cur = <<>> THEN acc ELSE Append(acc, cur))
         ELSE SplitRuns(s, i + 1, Append(cur, s[i]), acc)

split_ws(s) == SplitRuns(s, 1, <<>>, <<>>)

\* re.sub(r'[^a-z\s]', ' ', s): a blank is put in the place of every
\* character outside a-z and whitespace.
sub_to_space(s) ==
    [i \in 1..Len(s) |-> IF s[i] \in LowerSet \/ IsWhite(s[i]) THEN s[i] ELSE " "]

\* re.sub(r'[^a-z\s]', '', s): every character outside a-z and whitespace is
\* deleted; nothing is put in its place.
sub_non_letters(s) == SelectSeq(s, LAMBDA c : c \in LowerSet \/ IsWhite(c))

\* _tokenize without text.lower(): the capital letters are deleted with the
\* punctuation.
tokenize_no_lower(text) == split_ws(sub_non_letters(text))

\* _tokenize
tokenize(text) == split_ws(sub_non_letters(lower(text)))

\* set(...) of a list
ToSet(list) == {list[i] : i \in 1..Len(list)}

\* set(self._tokenize(text))
token_set(text) == ToSet(tokenize(text))

\* str.strip(): the text without its leading and trailing whitespace.
RECURSIVE lstrip(_)
lstrip(s) == IF s # <<>> /\ IsWhite(Head(s)) THEN lstrip(Tail(s)) ELSE s

RECURSIVE rstrip(_)
rstrip(s) ==
    IF s # <<>> /\ IsWhite(s[Len(s)]) THEN rstrip(SubSeq(s, 1, Len(s) - 1)) ELSE s

strip(s) == rstrip(lstrip(s))

\* sep occurs in s at position i.
OccursAt(s, sep, i) ==
    /\ i + Len(sep) - 1 <= Len(s)
    /\ \A k \in 1..Len(sep) : s[i + k - 1] = sep[k]

\* `sep in s`
contains(s, sep) == \E i \in 1..Len(s) : OccursAt(s, sep, i)

\* s.split(sep): cut at the occurrences of sep found left to right, each
\* search starting after the previous occurrence.  i is the position read,
\* start the position after the last cut.
RECURSIVE SplitFrom(_, _, _, _)
SplitFrom(s, sep, i, start) ==
    IF i > Len(s)
    THEN <<SubSeq(s, start, Len(s))>>
    ELSE IF OccursAt(s, sep, i)
         THEN <<SubSeq(s, start, i - 1)>>
                  \o SplitFrom(s, sep, i + Len(sep), i + Len(sep))
         ELSE SplitFrom(s, sep, i + 1, start)

split(s, sep) == SplitFrom(s, sep, 1, 1)

\* ------------------------------------------------------------- the engine
\* The operations are functions of the engine's fields e = [documents,
\* inverted_index, next_doc_id]; each gives the fields after the call, the
\* value returned and the lines printed.

\* doc_id=None
None == -1

Engine(docs, index, next) ==
    [documents |-> docs, inverted_index |-> index, next_doc_id |-> next]

\* __init__
EmptyEngine == Engine([d \in {} |-> <<>>], [t \in {} |-> {}], 0)

\* The loop of delete_document without the discard: the index keeps the ID.
prune_stale(index, tokens, doc_id) == index

\* The loop of delete_document without the `del`: an emptied posting set stays.
prune_keep_empty(index, tokens, doc_id) ==
    [t \in DOMAIN index |-> IF t \in tokens THEN index[t] \ {doc_id} ELSE index[t]]

\* The loop of delete_document with the `del` done for every token: the
\* posting set goes with whatever other IDs it holds.
prune_drop_terms(index, tokens, doc_id) ==
    [t \in DOMAIN index \ tokens |-> index[t]]

\* The loop of delete_document over the tokens of the deleted text: doc_id is
\* discarded from the posting set of each, and a posting set left empty is
\* deleted from the index.
prune(index, tokens, doc_id) ==
    [t \in {u \in DOMAIN index : u \notin tokens \/ index[u] \ {doc_id} # {}} |->
        IF t \in tokens THEN index[t] \ {doc_id} ELSE index[t]]

\* delete_document that answers True for an ID it does not hold.
delete_document_true(e, doc_id) ==
    IF doc_id \notin DOMAIN e.documents
    THEN [engine |-> e, ret |-> TRUE, out |-> <<"deleted">>]
    ELSE [engine |-> Engine([d \in DOMAIN e.documents \ {doc_id} |-> e.documents[d]],
                            [t \in {u \in DOMAIN e.inverted_index :
                                       u \notin token_set(e.documents[doc_id])
                                           \/ e.inverted_index[u] \ {doc_id} # {}} |->
                                e.inverted_index[t] \ {doc_id}],
                            e.next_doc_id),
          ret |-> TRUE,
          out |-> <<"deleted">>]

delete_document(e, doc_id) ==
    IF doc_id \notin DOMAIN e.documents
    THEN [engine |-> e, ret |-> FALSE, out |-> <<>>]
    ELSE LET text == e.documents[doc_id]
             docs == [d \in DOMAIN e.documents \ {doc_id} |-> e.documents[d]]
         IN  [engine |-> Engine(docs,
                                prune(e.inverted_index, token_set(text), doc_id),
                                e.next_doc_id),
              ret |-> TRUE,
              out |-> <<"deleted">>]

\* The loop of add_document without the creation of a posting set: a token new
\* to the index is not indexed.
post_existing_only(index, tokens, doc_id) ==
    [t \in DOMAIN index |-> IF t \in tokens THEN index[t] \cup {doc_id} ELSE index[t]]

\* The loop of add_document over the tokens of the new text: a posting set is
\* created for a token that has none, and doc_id is added to it.
post(index, tokens, doc_id) ==
    [t \in DOMAIN index \cup tokens |->
        IF t \in tokens
        THEN (IF t \in DOMAIN index THEN index[t] ELSE {}) \cup {doc_id}
        ELSE index[t]]

\* The ID add_document uses, the counter moved past an explicit ID.
assign_id_past(e, doc_id) ==
    IF doc_id = None
    THEN [id |-> e.next_doc_id, next |-> e.next_doc_id + 1]
    ELSE [id |-> doc_id,
          next |-> IF doc_id >= e.next_doc_id THEN doc_id + 1 ELSE e.next_doc_id]

\* The ID add_document uses, and the counter it leaves.
assign_id(e, doc_id) ==
    IF doc_id = None
    THEN [id |-> e.next_doc_id, next |-> e.next_doc_id + 1]
    ELSE [id |-> doc_id, next |-> e.next_doc_id]

\* add_document without the delete of an ID it already holds: the new text's
\* terms are merged into the old ones.
add_document_merge(e, text, doc_id) ==
    LET id   == IF doc_id = None THEN e.next_doc_id ELSE doc_id
        next == IF doc_id = None THEN e.next_doc_id + 1 ELSE e.next_doc_id
        docs == [d \in DOMAIN e.documents \cup {id} |->
                    IF d = id THEN text ELSE e.documents[d]]
    IN  [engine |-> Engine(docs,
                           [t \in DOMAIN e.inverted_index \cup token_set(text) |->
                               IF t \in token_set(text)
                               THEN (IF t \in DOMAIN e.inverted_index
                                     THEN e.inverted_index[t] ELSE {}) \cup {id}
                               ELSE e.inverted_index[t]],
                           next),
         ret |-> id,
         out |-> (IF id \in DOMAIN e.documents THEN <<"WARNING">> ELSE <<>>)
                     \o <<"added">>]

add_document(e, text, doc_id) ==
    LET a    == assign_id(e, doc_id)
        e1   == Engine(e.documents, e.inverted_index, a.next)
        old  == a.id \in DOMAIN e1.documents
        del  == delete_document(e1, a.id)
        e2   == IF old THEN del.engine ELSE e1
        docs == [d \in DOMAIN e2.documents \cup {a.id} |->
                    IF d = a.id THEN text ELSE e2.documents[d]]
    IN  [engine |-> Engine(docs, post(e2.inverted_index, token_set(text), a.id),
                           e2.next_doc_id),
         ret |-> a.id,
         out |-> (IF old THEN <<"WARNING">> \o del.out ELSE <<>>) \o <<"added">>]

\* self.inverted_index.get(term, set())
postings(e, term) ==
    IF term \in DOMAIN e.inverted_index THEN e.inverted_index[term] ELSE {}

\* The loops of search with update() in both.
RECURSIVE combine_union(_, _, _, _)
combine_union(e, operator, result_set, terms) ==
    IF terms = <<>>
    THEN result_set
    ELSE combine_union(e, operator,
                       result_set \cup
                           (IF Head(terms) \in DOMAIN e.inverted_index
                            THEN e.inverted_index[Head(terms)] ELSE {}),
                       Tail(terms))

\* The loops of search with intersection_update() in both.
RECURSIVE combine_intersect(_, _, _, _)
combine_intersect(e, operator, result_set, terms) ==
    IF terms = <<>>
    THEN result_set
    ELSE combine_intersect(e, operator,
                           result_set \cap
                               (IF Head(terms) \in DOMAIN e.inverted_index
                                THEN e.inverted_index[Head(terms)] ELSE {}),
                           Tail(terms))

\* The loops of search with the two set operations exchanged.
combine_swapped(e, operator, result_set, terms) ==
    IF operator = "AND"
    THEN combine_union(e, operator, result_set, terms)
    ELSE combine_intersect(e, operator, result_set, terms)

\* The two loops of search over terms[1:], from the copy of the first term's
\* posting set.
RECURSIVE combine(_, _, _, _)
combine(e, operator, result_set, terms) ==
    IF terms = <<>>
    THEN result_set
    ELSE combine(e, operator,
                 IF operator = "AND"
                 THEN result_set \cap postings(e, Head(terms))
                 ELSE result_set \cup postings(e, Head(terms)),
                 Tail(terms))

AND_SEP == <<" ", "A", "N", "D", " ">>

OR_SEP == <<" ", "O", "R", " ">>

\* [term.strip().lower() for term in segments]
strip_lower(segments) == [i \in 1..Len(segments) |-> lower(strip(segments[i]))]

\* The operator and the terms with OR for a query that names no operator.
parse_implicit_or(query) ==
    LET q == upper(strip(query))
    IN  IF contains(q, AND_SEP)
        THEN [operator |-> "AND", terms |-> strip_lower(split(q, AND_SEP))]
        ELSE IF contains(q, OR_SEP)
             THEN [operator |-> "OR", terms |-> strip_lower(split(q, OR_SEP))]
             ELSE [operator |-> "OR", terms |-> tokenize(q)]

\* The tokens of each segment in turn.
RECURSIVE tokenize_each(_)
tokenize_each(segments) ==
    IF segments = <<>>
    THEN <<>>
    ELSE tokenize(Head(segments)) \o tokenize_each(Tail(segments))

\* The operator and the terms with _tokenize applied to the segments of an
\* explicit query too.
parse_tokenizing(query) ==
    LET q == upper(strip(query))
    IN  IF contains(q, AND_SEP)
        THEN [operator |-> "AND", terms |-> tokenize_each(split(q, AND_SEP))]
        ELSE IF contains(q, OR_SEP)
             THEN [operator |-> "OR", terms |-> tokenize_each(split(q, OR_SEP))]
             ELSE [operator |-> "AND", terms |-> tokenize(q)]

\* The operator and the terms with " OR " looked for before " AND ".
parse_or_first(query) ==
    LET q == upper(strip(query))
    IN  IF contains(q, OR_SEP)
        THEN [operator |-> "OR", terms |-> strip_lower(split(q, OR_SEP))]
        ELSE IF contains(q, AND_SEP)
             THEN [operator |-> "AND", terms |-> strip_lower(split(q, AND_SEP))]
             ELSE [operator |-> "AND", terms |-> tokenize(q)]

\* The operator and the terms search derives from the query.
parse(query) ==
    LET q == upper(strip(query))
    IN  IF contains(q, AND_SEP)
        THEN [operator |-> "AND", terms |-> strip_lower(split(q, AND_SEP))]
        ELSE IF contains(q, OR_SEP)
             THEN [operator |-> "OR", terms |-> strip_lower(split(q, OR_SEP))]
             ELSE [operator |-> "AND", terms |-> tokenize(q)]

\* The set search computes when `if not terms` gives every document.
result_ids_all(e, query) ==
    LET p == parse(query)
    IN  IF p.terms = <<>>
        THEN DOMAIN e.documents
        ELSE combine(e, p.operator, postings(e, Head(p.terms)), Tail(p.terms))

\* The set search computes before it collects the documents.
result_ids(e, query) ==
    LET p == parse(query)
    IN  IF p.terms = <<>>
        THEN {}
        ELSE combine(e, p.operator, postings(e, Head(p.terms)), Tail(p.terms))

\* The comprehension that collects the found documents.
collect(e, ids) == [d \in {i \in ids : i \in DOMAIN e.documents} |-> e.documents[d]]

\* search without the copy(): result_set is the first term's posting set
\* itself, so the loops update the set the index holds.  The set() that get
\* makes for an absent term is no part of the index.
search_in_place(e, query) ==
    LET p     == parse(query)
        ids   == result_ids(e, query)
        index == IF p.terms # <<>> /\ Head(p.terms) \in DOMAIN e.inverted_index
                 THEN [e.inverted_index EXCEPT ![Head(p.terms)] = ids]
                 ELSE e.inverted_index
    IN  [engine |-> Engine(e.documents, index, e.next_doc_id),
         ret |-> collect(e, ids), out |-> <<>>]

\* search reads documents and inverted_index and assigns to neither: result_set
\* is a copy, and get(term, set()) adds no key.
search(e, query) ==
    [engine |-> e, ret |-> collect(e, result_ids(e, query)), out |-> <<>>]

\* ------------------------------------------------------------- inputs
DocIds == 0..MaxDocId

\* The texts of the documents:
\*   "An-d  a A", "B and", "-1", "a", "b" and "\tAND b\n".
Corpus ==
    << <<"A", "n", "-", "d", " ", " ", "a", " ", "A">>,
       <<"B", " ", "a", "n", "d">>,
       <<"-", "1">>,
       <<"a">>,
       <<"b">>,
       <<"\t", "A", "N", "D", " ", "b", "\n">> >>

Texts == {Corpus[i] : i \in 1..NumTexts}

\* The terms of the queries: "a", "B" and "And".
QueryTerms == {<<"a">>, <<"B">>, <<"A", "n", "d">>}

TermLists == UNION {[1..n -> QueryTerms] : n \in 1..MaxTerms}

\* " AND " and " and "
AndWords == {<<" ", "A", "N", "D", " ">>, <<" ", "a", "n", "d", " ">>}

\* " OR " and " or "
OrWords == {<<" ", "O", "R", " ">>, <<" ", "o", "r", " ">>}

\* " ", which makes no operator
Blank == <<" ">>

\* The words a query's terms are written with.
Words == AndWords \cup OrWords \cup {Blank}

\* Queries of other shapes, each the segments it is written from and the word
\* between them:
\*   "" and " \t\n";
\*   "a AND B or a" and "a or B and a", which hold both operators;
\*   "And a AND a" and "And a OR B", with a segment of two words;
\*   "a- AND And" and "a- OR And", with a segment that ends in a hyphen.
OddQueries ==
    { << << <<>> >>, Blank >>,
      << << <<" ", "\t", "\n">> >>, Blank >>,
      << << <<"a">>, <<"B", " ", "o", "r", " ", "a">> >>, <<" ", "A", "N", "D", " ">> >>,
      << << <<"a", " ", "o", "r", " ", "B">>, <<"a">> >>, <<" ", "a", "n", "d", " ">> >>,
      << << <<"A", "n", "d", " ", "a">>, <<"a">> >>, <<" ", "A", "N", "D", " ">> >>,
      << << <<"A", "n", "d", " ", "a">>, <<"B">> >>, <<" ", "O", "R", " ">> >>,
      << << <<"a", "-">>, <<"A", "n", "d">> >>, <<" ", "A", "N", "D", " ">> >>,
      << << <<"a", "-">>, <<"A", "n", "d">> >>, <<" ", "O", "R", " ">> >> }

\* What search is called with: the terms and the word of the query.
Queries == (TermLists \X Words) \cup OddQueries

\* The query "t1 w t2 w ... w tn": the terms written with word between them.
RECURSIVE Query(_, _)
Query(terms, word) ==
    IF Len(terms) = 1
    THEN Head(terms)
    ELSE Head(terms) \o word \o Query(Tail(terms), word)

\* ------------------------------------------------------------- the calls
Cur == Engine(documents, inverted_index, next_doc_id)

Call(name, text, doc_id, query, terms, word) ==
    [name |-> name, text |-> text, doc_id |-> doc_id, query |-> query,
     terms |-> terms, word |-> word]

NoCall == Call("none", <<>>, None, <<>>, <<>>, <<>>)

\* The call returns r: the engine's fields, the value and the lines printed.
Returns(call, r) ==
    /\ pc' = "returned"
    /\ op' = call
    /\ before' = Cur
    /\ documents' = r.engine.documents
    /\ inverted_index' = r.engine.inverted_index
    /\ next_doc_id' = r.engine.next_doc_id
    /\ ret' = r.ret
    /\ out' = r.out

Init ==
    /\ documents = EmptyEngine.documents
    /\ inverted_index = EmptyEngine.inverted_index
    /\ next_doc_id = EmptyEngine.next_doc_id
    /\ pc = "ready"
    /\ op = NoCall
    /\ before = EmptyEngine
    /\ ret = None
    /\ out = <<>>

AddDocument ==
    \E text \in Texts, doc_id \in DocIds \cup {None} :
        /\ pc = "ready"
        /\ doc_id = None => next_doc_id <= MaxDocId
        /\ Returns(Call("add_document", text, doc_id, <<>>, <<>>, <<>>),
                   add_document(Cur, text, doc_id))

DeleteDocument ==
    \E doc_id \in DocIds :
        /\ pc = "ready"
        /\ Returns(Call("delete_document", <<>>, doc_id, <<>>, <<>>, <<>>),
                   delete_document(Cur, doc_id))

Search ==
    \E q \in Queries :
        /\ pc = "ready"
        /\ Returns(Call("search", <<>>, None, Query(q[1], q[2]), q[1], q[2]),
                   search(Cur, Query(q[1], q[2])))

\* The caller takes the result and is ready for its next call.
Resume ==
    /\ pc = "returned"
    /\ pc' = "ready"
    /\ op' = NoCall
    /\ before' = EmptyEngine
    /\ ret' = None
    /\ out' = <<>>
    /\ UNCHANGED <<documents, inverted_index, next_doc_id>>

Next == AddDocument \/ DeleteDocument \/ Search \/ Resume

Spec == Init /\ [][Next]_vars

\* ------------------------------------------------------------- _tokenize alone
\* The characters of the texts: a small letter, a capital, a hyphen, a blank
\* and a tab.
Chars == {"a", "B", "-", " ", "\t"}

\* "IPSO-3" and "don't"
Ipso3 == <<"I", "P", "S", "O", "-", "3">>

Dont == <<"d", "o", "n", "'", "t">>

TokTexts == UNION {[1..n -> Chars] : n \in 0..MaxLen} \cup {Ipso3, Dont}

\* A fresh engine, about to be given one text to tokenize.
TokInit ==
    /\ documents = EmptyEngine.documents
    /\ inverted_index = EmptyEngine.inverted_index
    /\ next_doc_id = EmptyEngine.next_doc_id
    /\ pc = "ready"
    /\ op \in {Call("_tokenize", text, None, <<>>, <<>>, <<>>) : text \in TokTexts}
    /\ before = EmptyEngine
    /\ ret = None
    /\ out = <<>>

\* _tokenize returns the tokens; it reads and writes no field.
Tokenize ==
    /\ pc = "ready"
    /\ pc' = "returned"
    /\ ret' = tokenize(op.text)
    /\ UNCHANGED <<documents, inverted_index, next_doc_id, op, before, out>>

TokNext == Tokenize

SpecTok == TokInit /\ [][TokNext]_vars

\* ------------------------------------------------------------- properties
Returned(name) == pc = "returned" /\ op.name = name

Printed(line) == \E i \in 1..Len(out) : out[i] = line

\* The token set of each text.
TokensOfText == [t \in Texts |-> token_set(t)]

\* The terms that occur, after tokenization, in the document the engine e
\* holds under d.
TermsOf(e, d) == TokensOfText[e.documents[d]]

\* The documents of e that hold every term of ts, and those that hold one.
WithAll(e, ts) ==
    {d \in DOMAIN e.documents :
        LET held == TermsOf(e, d) IN \A i \in 1..Len(ts) : lower(ts[i]) \in held}

WithAny(e, ts) ==
    {d \in DOMAIN e.documents :
        LET held == TermsOf(e, d) IN \E i \in 1..Len(ts) : lower(ts[i]) \in held}

Stored(e, ids) == [d \in ids |-> e.documents[d]]

\* One of the terms between the first and the last is the word "and", in
\* whatever letter case.
InnerAnd(ts) == \E i \in 2..(Len(ts) - 1) : lower(ts[i]) = <<"a", "n", "d">>

\* C1 (I1): for every term t and document ID d, d is in inverted_index[t] if
\* and only if d is a key of documents and t is a token of documents[d].
C1_IndexMatchesDocuments ==
    LET held == [d \in DOMAIN documents |-> TermsOf(Cur, d)]
        ids  == DOMAIN documents \cup UNION {inverted_index[u] : u \in DOMAIN inverted_index}
    IN  \A t \in DOMAIN inverted_index \cup UNION {held[d] : d \in DOMAIN documents} :
            \A d \in ids :
                (t \in DOMAIN inverted_index /\ d \in inverted_index[t])
                    <=> (d \in DOMAIN documents /\ t \in held[d])

\* A replacing add has returned, two documents are stored; they share a term
\* and one has a term of its own.
C1_Witness ==
    /\ Returned("add_document") /\ Printed("WARNING")
    /\ DOMAIN documents = {0, 1}
    /\ \E t \in DOMAIN inverted_index : inverted_index[t] = {0, 1}
    /\ \E t \in DOMAIN inverted_index : inverted_index[t] = {1}

\* C2 (I4), as claimed: an add_document without doc_id never gets an ID the
\* store already holds, so it never takes the replace path.
C2_AutoIdNeverReplaces ==
    (Returned("add_document") /\ op.doc_id = None)
        => (ret \notin DOMAIN before.documents /\ ~Printed("WARNING"))

\* C3: add_document(T, D) followed by add_document(T2, D) leaves the engine as
\* add_document(T2, D) alone does: here add_document(T2, D) has just returned,
\* and making the two calls from the state it was made in gives the state it
\* left, with D in the posting set of no term of T that T2 lacks and no such
\* term left in the index for D's sake.
C3_ReAddIsReplace ==
    (Returned("add_document") /\ op.doc_id # None) =>
        \A T \in Texts :
            LET D     == op.doc_id
                twice == add_document(add_document(before, T, D).engine, op.text, D).engine
            IN  /\ twice = Cur
                /\ \A t \in token_set(T) \ token_set(op.text) :
                       /\ D \notin postings(twice, t)
                       /\ t \in DOMAIN twice.inverted_index =>
                              twice.inverted_index[t] \ {D} # {}

\* "B and" has replaced, under ID 0, a text that held the term "a", which no
\* document holds any more.
C3_Witness ==
    /\ Returned("add_document") /\ op.doc_id = 0 /\ op.text = Corpus[2]
    /\ Printed("WARNING")
    /\ 0 \in DOMAIN before.documents /\ <<"a">> \in TermsOf(before, 0)
    /\ <<"a">> \in DOMAIN before.inverted_index
    /\ <<"a">> \notin DOMAIN inverted_index
    /\ documents[0] = Corpus[2]

\* C4: delete_document(D) for a D that is no key of documents returns False
\* and changes nothing; for a D that is a key it returns True and D is no key
\* afterwards.
C4_DeleteAbsentIsNoOp ==
    Returned("delete_document") =>
        IF op.doc_id \notin DOMAIN before.documents
        THEN ret = FALSE /\ Cur = before
        ELSE ret = TRUE /\ op.doc_id \notin DOMAIN documents

\* delete_document has returned False on a store that holds a document.
C4_Witness ==
    /\ Returned("delete_document") /\ ret = FALSE
    /\ DOMAIN documents # {} /\ DOMAIN inverted_index # {}

\* C5 (I2): every key of inverted_index maps to a non-empty set, and after a
\* successful delete_document(D) no term that occurred in D's document alone
\* is a key of the index.
C5_NoEmptyPostings ==
    /\ \A t \in DOMAIN inverted_index : inverted_index[t] # {}
    /\ (Returned("delete_document") /\ ret = TRUE) =>
           \A t \in TermsOf(before, op.doc_id) :
               (\A d \in DOMAIN before.documents \ {op.doc_id} : t \notin TermsOf(before, d))
                   => t \notin DOMAIN inverted_index

\* A delete has returned True for a document that held a term of its own and
\* a term it shared with the document that stays.
C5_Witness ==
    /\ Returned("delete_document") /\ ret = TRUE
    /\ DOMAIN documents # {}
    /\ \E t \in TermsOf(before, op.doc_id) :
           t \notin DOMAIN inverted_index /\ t \in DOMAIN before.inverted_index
    /\ \E t \in TermsOf(before, op.doc_id) : t \in DOMAIN inverted_index

\* C6 (I3): every ID in a posting set is a key of documents, so the last
\* filter of search removes nothing: the keys of the mapping returned are the
\* set the intersection or union gave, each mapped to its stored text.
C6_NoDanglingPostings ==
    /\ \A t \in DOMAIN inverted_index : inverted_index[t] \subseteq DOMAIN documents
    /\ Returned("search") =>
           /\ DOMAIN ret = result_ids(before, op.query)
           /\ \A d \in DOMAIN ret : ret[d] = documents[d]

\* A search has returned one of the two stored documents, which share a
\* posting set.
C6_Witness ==
    /\ Returned("search")
    /\ Cardinality(DOMAIN documents) = 2
    /\ Cardinality(DOMAIN ret) = 1
    /\ \E t \in DOMAIN inverted_index : inverted_index[t] = DOMAIN documents

\* C7: for every stored document D with text T and every token t of T,
\* search(t) returns a mapping that holds D mapped to T.  Stated where the
\* caller is ready for a call: every state of the engine is one it is ready in.
C7_RoundTrip ==
    pc = "ready" =>
        \A D \in DOMAIN documents :
            \A t \in TermsOf(Cur, D) :
                LET found == search(Cur, t).ret
                IN  D \in DOMAIN found /\ found[D] = documents[D]

\* search("And") has returned the two stored documents "An-d  a A" and
\* "B and".
C7_Witness ==
    /\ Returned("search") /\ op.query = <<"A", "n", "d">>
    /\ DOMAIN ret = {0, 1}
    /\ {ret[0], ret[1]} = {Corpus[1], Corpus[2]}

\* C8, as claimed: for every list of two or more terms, the keys of
\* search("t1 AND ... AND tn") are among the keys of search("t1 OR ... OR tn").
C8_AndWithinOr ==
    (Returned("search") /\ op.word \in AndWords /\ Len(op.terms) >= 2) =>
        \A v \in OrWords :
            DOMAIN ret \subseteq DOMAIN search(before, Query(op.terms, v)).ret

\* C8, amended: the same for every list of two or more terms of which none
\* but the first and the last is the word "and".
C8_AndWithinOrNoInnerAnd ==
    (Returned("search") /\ op.word \in AndWords /\ Len(op.terms) >= 2
        /\ ~InnerAnd(op.terms)) =>
        \A v \in OrWords :
            DOMAIN ret \subseteq DOMAIN search(before, Query(op.terms, v)).ret

\* search("a AND And") has returned "An-d  a A" and not "B and", which
\* search("a OR And") returns too.
C8_Witness ==
    /\ Returned("search")
    /\ op.query = Query(<< <<"a">>, <<"A", "n", "d">> >>, AND_SEP)
    /\ op.word = AND_SEP
    /\ documents = (0 :> Corpus[2]) @@ (1 :> Corpus[1])
    /\ DOMAIN ret = {1}
    /\ DOMAIN search(Cur, Query(op.terms, OR_SEP)).ret = {0, 1}

\* C9: search("t1 AND ... AND tn"), the operator and the terms in any letter
\* case, returns the stored documents whose tokens include every ti, each
\* mapped to its text.
C9_ExplicitAnd ==
    (Returned("search") /\ op.word \in AndWords)
        => ret = Stored(Cur, WithAll(Cur, op.terms))

\* search("B and And and B") has returned "B and" and not "An-d  a A", which
\* lacks the term "b".
C9_Witness ==
    /\ Returned("search")
    /\ op.query = Query(<< <<"B">>, <<"A", "n", "d">>, <<"B">> >>,
                        <<" ", "a", "n", "d", " ">>)
    /\ op.word \in AndWords
    /\ documents = (0 :> Corpus[1]) @@ (1 :> Corpus[2])
    /\ ret = (1 :> Corpus[2])

\* C10, as claimed: search("t1 OR ... OR tn") returns the stored documents
\* whose tokens include at least one ti, each mapped to its text.
C10_ExplicitOr ==
    (Returned("search") /\ op.word \in OrWords)
        => ret = Stored(Cur, WithAny(Cur, op.terms))

\* C10, amended: the same for the terms of which none but the first and the
\* last is the word "and".
C10_ExplicitOrNoInnerAnd ==
    (Returned("search") /\ op.word \in OrWords /\ ~InnerAnd(op.terms))
        => ret = Stored(Cur, WithAny(Cur, op.terms))

\* search("a OR B") has returned "An-d  a A" and not "-1", which holds
\* neither term; no posting set exists for "b".
C10_Witness ==
    /\ Returned("search")
    /\ op.query = Query(<< <<"a">>, <<"B">> >>, OR_SEP)
    /\ op.word = OR_SEP
    /\ next_doc_id = 1
    /\ documents = (0 :> Corpus[3]) @@ (1 :> Corpus[1])
    /\ ret = (1 :> Corpus[1])

\* C11: a search call leaves documents, inverted_index (its keys and every
\* posting set) and next_doc_id as they were when it was made, also when the
\* first term's posting set is intersected or united with other sets.
C11_SearchIsReadOnly == Returned("search") => Cur = before

\* A search of two or more terms has returned on an index that holds the
\* first term, and the loops gave a set other than that term's posting set.
C11_Witness ==
    /\ Returned("search")
    /\ LET terms == parse(op.query).terms
       IN  /\ Len(terms) >= 2
           /\ Head(terms) \in DOMAIN inverted_index
           /\ DOMAIN ret # inverted_index[Head(terms)]

\* C12: after a successful delete_document(D) every other document ID keeps
\* its stored text and is in a term's posting set exactly when it was before,
\* and a term D shared with other documents is still a key of the index, its
\* posting set the one before without D.
C12_DeleteTouchesOnlyD ==
    (Returned("delete_document") /\ ret = TRUE) =>
        LET D     == op.doc_id
            terms == DOMAIN before.inverted_index \cup DOMAIN inverted_index
            ids   == (DOMAIN before.documents \cup DOMAIN documents \cup DocIds
                         \cup UNION {postings(before, t) \cup postings(Cur, t) : t \in terms})
                     \ {D}
        IN  /\ \A d \in ids :
                   /\ d \in DOMAIN documents <=> d \in DOMAIN before.documents
                   /\ d \in DOMAIN documents => documents[d] = before.documents[d]
                   /\ \A t \in terms : d \in postings(Cur, t) <=> d \in postings(before, t)
            /\ \A t \in DOMAIN before.inverted_index :
                   (D \in before.inverted_index[t] /\ before.inverted_index[t] # {D})
                       => /\ t \in DOMAIN inverted_index
                          /\ inverted_index[t] = before.inverted_index[t] \ {D}

\* A delete has returned True for a document that shared a term with the
\* document that stays, which also holds a term the deleted one lacked.
C12_Witness ==
    /\ Returned("delete_document") /\ ret = TRUE
    /\ \E t \in DOMAIN before.inverted_index :
           /\ op.doc_id \in before.inverted_index[t]
           /\ before.inverted_index[t] # {op.doc_id}
           /\ t \in DOMAIN inverted_index
    /\ \E t \in DOMAIN inverted_index : op.doc_id \notin before.inverted_index[t]

\* C13: next_doc_id starts at 0 and no operation decreases it; add_document
\* with an explicit doc_id, delete_document and search leave it unchanged,
\* and add_document without doc_id increases it by exactly 1 and returns its
\* value before the increment; add_document with an explicit doc_id returns
\* that doc_id.
C13_AutoIdCounter ==
    /\ next_doc_id = 0
    /\ [][/\ next_doc_id' >= next_doc_id
          /\ (pc' = "returned" /\ op'.name = "add_document") =>
                 IF op'.doc_id = None
                 THEN next_doc_id' = next_doc_id + 1 /\ ret' = next_doc_id
                 ELSE next_doc_id' = next_doc_id /\ ret' = op'.doc_id
          /\ (pc' = "returned" /\ op'.name \in {"delete_document", "search"}) =>
                 next_doc_id' = next_doc_id]_vars

\* The second add_document without doc_id has returned 1, after an add with
\* the explicit ID 1 and a delete that left the counter at 1.
C13_Witness ==
    /\ Returned("add_document") /\ op.doc_id = None
    /\ before.next_doc_id = 1 /\ ret = 1 /\ next_doc_id = 2
    /\ DOMAIN before.documents = {1}

\* C14: search of the empty string or of a string of whitespace alone returns
\* the empty mapping, whatever the store holds.
C14_EmptyQuery ==
    (Returned("search") /\ \A i \in 1..Len(op.query) : IsWhite(op.query[i]))
        => DOMAIN ret = {}

\* search(" \t\n") has returned nothing from a store of two documents.
C14_Witness ==
    /\ Returned("search") /\ op.query = <<" ", "\t", "\n">>
    /\ Cardinality(DOMAIN documents) = 2 /\ DOMAIN inverted_index # {}
    /\ DOMAIN ret = {}

\* The tokens put end to end, and the lengths at which one token ends and the
\* next begins.
RECURSIVE Flatten(_)
Flatten(tokens) == IF tokens = <<>> THEN <<>> ELSE Head(tokens) \o Flatten(Tail(tokens))

CutSet(tokens) == {Len(Flatten(SubSeq(tokens, 1, n))) : n \in 1..(Len(tokens) - 1)}

\* C15: the tokens of a text are non-empty strings of a-z; put end to end
\* they are the letters of the text, lowercased and in order, and nothing
\* else; one token ends and the next begins between two successive letters
\* exactly when whitespace stands between them, so letters parted only by
\* digits or punctuation are in one token ("IPSO-3" gives "ipso", "don't"
\* gives "dont"); a text without letters gives the empty sequence.
C15_Tokenizer ==
    (pc = "returned" /\ op.name = "_tokenize") =>
        LET text    == op.text
            low     == lower(text)
            P       == {i \in 1..Len(text) : low[i] \in LowerSet}
            Rank(i) == Cardinality({j \in P : j <= i})
            flat    == Flatten(ret)
            Parted  == {i \in P : \E j \in P :
                           /\ j > i
                           /\ \A k \in (i + 1)..(j - 1) : k \notin P
                           /\ \E k \in (i + 1)..(j - 1) : IsWhite(text[k])}
        IN  /\ \A n \in 1..Len(ret) :
                   ret[n] # <<>> /\ \A i \in 1..Len(ret[n]) : ret[n][i] \in LowerSet
            /\ Len(flat) = Cardinality(P)
            /\ \A i \in P : flat[Rank(i)] = low[i]
            /\ CutSet(ret) = {Rank(i) : i \in Parted}
            /\ P = {} => ret = <<>>
            /\ text = Ipso3 => ret = << <<"i", "p", "s", "o">> >>
            /\ text = Dont => ret = << <<"d", "o", "n", "t">> >>

\* _tokenize("don't") has returned the one token "dont".
C15_Witness ==
    /\ pc = "returned" /\ op.name = "_tokenize" /\ op.text = Dont
    /\ ret = << <<"d", "o", "n", "t">> >>

\* " and " and " or ", as they stand in a query written in small letters.
SmallAnd == <<" ", "a", "n", "d", " ">>

SmallOr == <<" ", "o", "r", " ">>

\* How a query reads, told from its small letters: the operator its trimmed
\* text holds, " and " before " or ", and the segments between the operator's
\* occurrences, trimmed; or no operator, and the query's tokens.
Reading(query) ==
    LET q == lower(strip(query))
    IN  IF contains(q, SmallAnd)
        THEN [operator |-> "and", terms |-> strip_lower(split(q, SmallAnd))]
        ELSE IF contains(q, SmallOr)
             THEN [operator |-> "or", terms |-> strip_lower(split(q, SmallOr))]
             ELSE [operator |-> "none", terms |-> tokenize(q)]

Readings == [q \in {Query(x[1], x[2]) : x \in Queries} |-> Reading(q)]

\* C16: whatever the letter case of the query, if its trimmed text holds
\* " and " the search returns the documents that hold every segment between
\* the " and "s, a segment with " or " in it taken as one term; if it holds
\* " or " and no " and ", the documents that hold one of the segments between
\* the " or "s; if it holds neither, the documents that hold every token of
\* the query.
C16_OperatorPriority ==
    Returned("search") =>
        LET r == Readings[op.query]
        IN  CASE r.operator = "and" -> ret = Stored(Cur, WithAll(Cur, r.terms))
              [] r.operator = "or" -> ret = Stored(Cur, WithAny(Cur, r.terms))
              [] OTHER -> r.terms # <<>> => ret = Stored(Cur, WithAll(Cur, r.terms))

\* search("a AND B or a") has returned nothing from a store with a document
\* that holds "a", which is a segment between the " or "s.
C16_Witness ==
    /\ Returned("search")
    /\ op.query = <<"a">> \o AND_SEP \o <<"B", " ", "o", "r", " ", "a">>
    /\ contains(upper(op.query), AND_SEP) /\ contains(upper(op.query), OR_SEP)
    /\ \E d \in DOMAIN documents : <<"a">> \in TermsOf(Cur, d)
    /\ DOMAIN ret = {}

\* The string is letters a-z from end to end.
IsWord(s) == \A k \in 1..Len(s) : s[k] \in LowerSet

PlainTerms(ts) ==
    \A i \in 1..Len(ts) :
        /\ ts[i] # <<>> /\ IsWord(lower(ts[i]))
        /\ lower(ts[i]) \notin {<<"a", "n", "d">>, <<"o", "r">>}

\* C18: for terms that are single words of letters, none of them "and" or
\* "or", search("t1 t2 ... tn") returns what search("t1 AND t2 AND ... AND tn")
\* returns, which is the stored documents that hold every ti.
C18_ImplicitAnd ==
    (Returned("search") /\ op.word = Blank /\ PlainTerms(op.terms)) =>
        /\ ret = search(before, Query(op.terms, AND_SEP)).ret
        /\ ret = Stored(Cur, WithAll(Cur, op.terms))

\* search("a B") has returned nothing from a store of two documents, one
\* that holds "a" and not "b" and one that holds "b" and not "a".
C18_Witness ==
    /\ Returned("search") /\ op.word = Blank
    /\ op.query = <<"a", " ", "B">>
    /\ documents = (0 :> Corpus[1]) @@ (1 :> Corpus[2])
    /\ <<"a">> \in TermsOf(Cur, 0) /\ <<"b">> \in TermsOf(Cur, 1)
    /\ DOMAIN ret = {}

\* C19: add_document(T, D) with an explicit D that is no key of documents has
\* just returned; delete_document(D) made now returns True and leaves
\* documents, inverted_index (the same keys and the same posting sets) and
\* next_doc_id as they were before the add.
C19_AddThenDelete ==
    (Returned("add_document") /\ op.doc_id # None
        /\ op.doc_id \notin DOMAIN before.documents) =>
        LET undone == delete_document(Cur, op.doc_id)
        IN  /\ undone.ret = TRUE
            /\ undone.engine.documents = before.documents
            /\ undone.engine.inverted_index = before.inverted_index
            /\ undone.engine.next_doc_id = before.next_doc_id

\* "B and" has been added under the new ID 1 to a store that held "An-d  a A":
\* the term "and" got a second ID and the term "b" a posting set.
C19_Witness ==
    /\ Returned("add_document") /\ op.doc_id = 1 /\ op.text = Corpus[2]
    /\ before.documents = (0 :> Corpus[1])
    /\ inverted_index[<<"a", "n", "d">>] = {0, 1}
    /\ <<"b">> \in DOMAIN inverted_index \ DOMAIN before.inverted_index

====
